---- MODULE Spec2Model ----
(***************************************************************************)
(* The BIN lookup service of api.py: the loader (load_data / load_file),   *)
(* the two in-memory indexes COUNTRY_DATA (byCountry) and BIN_INDEX        *)
(* (byBin), and the query handlers get_bins and get_bin_info.              *)
(*                                                                         *)
(* Python strings on which the code works character by character (file     *)
(* names, country codes, issuers, the bank parameter) are sequences of     *)
(* one-character strings.  BINs are only ever compared for equality and    *)
(* are TLA+ strings.  An Optional[...] argument is a set with at most one   *)
(* element: {} is None, {x} is the value x.                                *)
(*                                                                         *)
(* One action is one run of a coroutine between two points at which the    *)
(* asyncio event loop can switch to another coroutine.                     *)
(***************************************************************************)
EXTENDS Integers, Sequences, FiniteSets, TLC

VARIABLES COUNTRY_DATA, BIN_INDEX, dir, loads, started, resp

vars == <<COUNTRY_DATA, BIN_INDEX, dir, loads, started, resp>>

-----------------------------------------------------------------------------
(* Bounds of the model.                                                    *)

\* load_data() runs at most MaxLoads times in a behaviour: the startup load
\* and MaxLoads - 1 lazy reloads, which may overlap one another.
MaxLoads == 2

\* limit ranges over -1 .. MaxLimit (and absent).
MaxLimit == 2

-----------------------------------------------------------------------------
(* Strings.                                                                *)

Uppers == <<"A", "B", "D", "E", "F", "J", "N", "O", "R", "S", "U">>
Lowers == <<"a", "b", "d", "e", "f", "j", "n", "o", "r", "s", "u">>

\* str.lower() / str.upper(), one character.
LowerChar(c) ==
    IF \E i \in 1..Len(Uppers) : Uppers[i] = c
    THEN Lowers[CHOOSE i \in 1..Len(Uppers) : Uppers[i] = c]
    ELSE c

UpperChar(c) ==
    IF \E i \in 1..Len(Lowers) : Lowers[i] = c
    THEN Uppers[CHOOSE i \in 1..Len(Lowers) : Lowers[i] = c]
    ELSE c

Lower(s) == [i \in 1..Len(s) |-> LowerChar(s[i])]
Upper(s) == [i \in 1..Len(s) |-> UpperChar(s[i])]

\* s.endswith(suffix)
EndsWith(s, suffix) ==
    /\ Len(suffix) <= Len(s)
    /\ SubSeq(s, Len(s) - Len(suffix) + 1, Len(s)) = suffix

\* sub in s, for Python strings
Contains(s, sub) ==
    \E i \in 0..(Len(s) - Len(sub)) : SubSeq(s, i + 1, i + Len(sub)) = sub

\* s.replace(old, "") : every non-overlapping occurrence, left to right
RECURSIVE Remove(_, _)
Remove(s, old) ==
    IF Len(s) < Len(old) THEN s
    ELSE IF SubSeq(s, 1, Len(old)) = old
         THEN Remove(SubSeq(s, Len(old) + 1, Len(s)), old)
         ELSE <<s[1]>> \o Remove(Tail(s), old)

DotJson == <<".", "j", "s", "o", "n">>
BinStr == <<"b", "i", "n">>
IssuerStr == <<"i", "s", "s", "u", "e", "r">>

-----------------------------------------------------------------------------
(* JSON values, as json.load returns them.                                 *)

JNum == [t |-> "num"]
JStr(s) == [t |-> "str", s |-> s]
JArr(a) == [t |-> "arr", a |-> a]
\* A JSON object; f is a record whose fields are the keys that are present.
\* "bin" holds a BIN, "country_code" a string, "issuer" a JStr or a JNum.
JObj(f) == [t |-> "obj", f |-> f]

\* key in entry, for a dict
HasKey(e, key) == key \in DOMAIN e.f

-----------------------------------------------------------------------------
(* The data directory COUNTRY_JSON_DIR.  A file is what json.load makes of  *)
(* it (parse = {} when it raises on every attempt) and whether open() can   *)
(* raise OSError on an attempt (flaky).                                     *)

File(parse, flaky) == [parse |-> parse, flaky |-> flaky]

us1 == JObj([bin |-> "411111", issuer |-> JStr(<<"A", "b">>), country_code |-> <<"u", "s">>])
us2 == JObj([bin |-> "522222", issuer |-> JStr(<<"a", "B", "d">>), country_code |-> <<"U", "S">>])
us3 == JObj([bin |-> "411111", issuer |-> JStr(<<"S", "u">>), country_code |-> <<"U", "S">>])
de1 == JObj([bin |-> "411111", issuer |-> JStr(<<"D", "b">>), country_code |-> <<"D", "E">>])
de2 == JObj([issuer |-> JStr(<<"N", "o">>)])
de3 == JObj([bin |-> "633333", country_code |-> <<"d", "e">>])

us_json == <<"u", "s", ".", "j", "s", "o", "n">>
US_json == <<"U", "S", ".", "j", "s", "o", "n">>
de_json == <<"d", "e", ".", "j", "s", "o", "n">>
de_JSON == <<"d", "e", ".", "J", "S", "O", "N">>
fr_json == <<"f", "r", ".", "j", "s", "o", "n">>
no_txt == <<"n", "o", ".", "t", "x", "t">>

NoFiles == [n \in {} |-> File({}, FALSE)]

Directories == {
    \* the directory does not exist
    [exists |-> FALSE, files |-> NoFiles],
    \* a well-formed file that may be unreadable, and a file whose second
    \* entry is not an object
    [exists |-> TRUE,
     files |-> (us_json :> File({JArr(<<us3, us1, us2>>)}, TRUE))
            @@ (de_json :> File({JArr(<<de1, JNum, de3>>)}, FALSE))],
    \* two well-formed files that share a BIN, an empty file, and a file
    \* that is no dataset
    [exists |-> TRUE,
     files |-> (us_json :> File({JArr(<<us1, us2>>)}, FALSE))
            @@ (de_json :> File({JArr(<<de2, de1>>)}, FALSE))
            @@ (fr_json :> File({JArr(<<>>)}, FALSE))
            @@ (no_txt :> File({JArr(<<de3>>)}, FALSE))],
    \* a file that is not JSON and a well-formed one
    [exists |-> TRUE,
     files |-> (us_json :> File({}, FALSE))
            @@ (de_json :> File({JArr(<<de2, de3>>)}, FALSE))],
    \* two files with the same country code
    [exists |-> TRUE,
     files |-> (us_json :> File({JArr(<<us1>>)}, FALSE))
            @@ (US_json :> File({JArr(<<us2, us3>>)}, FALSE))],
    \* a file that holds a number
    [exists |-> TRUE,
     files |-> (us_json :> File({JNum}, FALSE))],
    \* records without a BIN, under an upper-case extension
    [exists |-> TRUE,
     files |-> (de_JSON :> File({JArr(<<de2>>)}, FALSE))],
    \* one well-formed file that may be unreadable
    [exists |-> TRUE,
     files |-> (de_json :> File({JArr(<<de2, de3>>)}, TRUE))],
    \* an empty file and a well-formed file that may be unreadable
    [exists |-> TRUE,
     files |-> (fr_json :> File({JArr(<<>>)}, FALSE))
            @@ (de_json :> File({JArr(<<de2, de3>>)}, TRUE))]
}

-----------------------------------------------------------------------------
(* The indexes.  COUNTRY_DATA is a dict, which keeps its keys in insertion  *)
(* order: a sequence of [k, v].  BIN_INDEX is a function on its keys.       *)

Keys(cd) == {cd[i].k : i \in 1..Len(cd)}

\* cd[key], for a key of cd
DictGet(cd, key) == cd[CHOOSE i \in 1..Len(cd) : cd[i].k = key].v

\* cd[key] = v : a new key goes last, a known key keeps its place
DictSet(cd, key, v) ==
    IF key \in Keys(cd)
    THEN [i \in 1..Len(cd) |-> IF cd[i].k = key THEN [k |-> key, v |-> v] ELSE cd[i]]
    ELSE Append(cd, [k |-> key, v |-> v])

\* bi[key] = v
Put(bi, key, v) == [x \in DOMAIN bi \cup {key} |-> IF x = key THEN v ELSE bi[x]]

EmptyIndex == [b \in {} |-> JNum]

-----------------------------------------------------------------------------
(* load_file                                                               *)

\* a retry loop that runs once more
MaxAttemptsOneMore == 3 + 1

\* range(3)
MaxAttempts == 3

\* an indexing loop that ends at the first record without a bin field
RECURSIVE IndexEntriesUntilNoBin(_, _)
IndexEntriesUntilNoBin(entries, bi) ==
    IF entries = <<>> THEN [bi |-> bi, ok |-> TRUE]
    ELSE LET e == Head(entries) IN
         CASE e.t = "obj" ->
                IF HasKey(e, "bin")
                THEN IndexEntriesUntilNoBin(Tail(entries), Put(bi, e.f.bin, e))
                ELSE [bi |-> bi, ok |-> TRUE]
           [] e.t = "str" ->
                IF Contains(e.s, BinStr)
                THEN [bi |-> bi, ok |-> FALSE]
                ELSE IndexEntriesUntilNoBin(Tail(entries), bi)
           [] OTHER -> [bi |-> bi, ok |-> FALSE]

\* for entry in data: if 'bin' in entry: BIN_INDEX[entry['bin']] = entry
\* ok is FALSE when an entry raises; the entries before it stay indexed.
RECURSIVE IndexEntries(_, _)
IndexEntries(entries, bi) ==
    IF entries = <<>> THEN [bi |-> bi, ok |-> TRUE]
    ELSE LET e == Head(entries) IN
         CASE e.t = "obj" ->
                IF HasKey(e, "bin")
                THEN IndexEntries(Tail(entries), Put(bi, e.f.bin, e))
                ELSE IndexEntries(Tail(entries), bi)
           [] e.t = "str" ->
                \* 'bin' in "..." is a substring test; entry['bin'] raises
                IF Contains(e.s, BinStr)
                THEN [bi |-> bi, ok |-> FALSE]
                ELSE IndexEntries(Tail(entries), bi)
           [] OTHER -> [bi |-> bi, ok |-> FALSE]

\* The body of one attempt, from open() to return True.  It holds no await
\* that suspends (the lock is new and free), so it runs in one piece.
\* ioerr: open() raises on this attempt.
AttemptBody(cd, bi, country_code, file, ioerr) ==
    IF ioerr \/ file.parse = {}
    THEN [cd |-> cd, bi |-> bi, ok |-> FALSE]
    ELSE LET data == CHOOSE d \in file.parse : TRUE
             cd1 == DictSet(cd, country_code, data)
         IN IF data.t # "arr"
            THEN [cd |-> cd1, bi |-> bi, ok |-> FALSE]
            ELSE LET r == IndexEntries(data.a, bi)
                 IN [cd |-> cd1, bi |-> r.bi, ok |-> r.ok]

-----------------------------------------------------------------------------
(* load_data                                                               *)

\* filename.lower().endswith('.json')
IsDataset(filename) == EndsWith(Lower(filename), DotJson)

\* filename.replace('.json', '').upper()
CountryCode(filename) == Upper(Remove(filename, DotJson))

\* the tasks list: one load_file coroutine per dataset file
NewTasks(d) ==
    [n \in {m \in DOMAIN d.files : IsDataset(m)} |-> [pc |-> "start", attempt |-> 0]]

NoTasks == [n \in {} |-> [pc |-> "start", attempt |-> 0]]

Returned(task) == task.pc \in {"true", "false"}

\* a failure count that takes every result that is not True, the tasks
\* that returned True included
FailedCountsAll(tasks) == Cardinality(DOMAIN tasks)

\* failed = sum(1 for r in results if r is False)
Failed(tasks) == Cardinality({n \in DOMAIN tasks : tasks[n].pc = "false"})

IdleLoad == [st |-> "idle", by |-> "none", tasks |-> NoTasks, failed |-> 0]

\* a load_data without the os.path.exists test: os.listdir raises on a
\* directory that does not exist
BeginLoadListsMissing(d, by) ==
    IF ~d.exists
    THEN [st |-> "raised", by |-> by, tasks |-> NoTasks, failed |-> 0]
    ELSE LET tasks == NewTasks(d) IN
         IF DOMAIN tasks = {}
         THEN [st |-> "done", by |-> by, tasks |-> tasks, failed |-> Failed(tasks)]
         ELSE [st |-> "running", by |-> by, tasks |-> tasks, failed |-> 0]

\* load_data up to its first suspension.  With no directory, or with no
\* task to gather, it returns without suspending.
BeginLoad(d, by) ==
    IF ~d.exists
    THEN [st |-> "done", by |-> by, tasks |-> NoTasks, failed |-> 0]
    ELSE LET tasks == NewTasks(d) IN
         IF DOMAIN tasks = {}
         THEN [st |-> "done", by |-> by, tasks |-> tasks, failed |-> Failed(tasks)]
         ELSE [st |-> "running", by |-> by, tasks |-> tasks, failed |-> 0]

Loads == 1..MaxLoads

\* the next unused run of load_data
FreeLoad == CHOOSE L \in Loads : loads[L].st = "idle" /\ \A K \in 1..(L - 1) : loads[K].st # "idle"

HasFreeLoad == \E L \in Loads : loads[L].st = "idle"

-----------------------------------------------------------------------------
(* get_country_info and format_entry                                       *)

\* What pycountry and pycountry_convert know.  cont = {} when the continent
\* lookup raises.
CountryTable ==
    (<<"U", "S">> :> [A3 |-> "USA", N3 |-> "840", Name |-> "United States", cont |-> {"North America"}])
    @@ (<<"D", "E">> :> [A3 |-> "DEU", N3 |-> "276", Name |-> "Germany", cont |-> {"Europe"}])
    @@ (<<"A", "Q">> :> [A3 |-> "ATA", N3 |-> "010", Name |-> "Antarctica", cont |-> {}])

get_country_info(country_code) ==
    LET code == Upper(country_code) IN
    IF code \notin DOMAIN CountryTable
    THEN [A2 |-> code, A3 |-> "", N3 |-> "", Name |-> "", Cont |-> ""]
    ELSE LET c == CountryTable[code] IN
         [A2 |-> code, A3 |-> c.A3, N3 |-> c.N3, Name |-> c.Name,
          Cont |-> IF c.cont = {} THEN "" ELSE CHOOSE x \in c.cont : TRUE]

\* The fields the model's records carry; the other fields of the response
\* (brand, category, CardTier, type, phone, website) are passed through the
\* same way and are left out.
format_entry(entry) ==
    LET country_code == Upper(IF HasKey(entry, "country_code") THEN entry.f.country_code ELSE <<>>)
    IN [bin |-> IF HasKey(entry, "bin") THEN entry.f.bin ELSE "",
        country_code |-> country_code,
        Country |-> get_country_info(country_code),
        issuer |-> IF HasKey(entry, "issuer") THEN entry.f.issuer ELSE JStr(<<>>)]

-----------------------------------------------------------------------------
(* Requests and responses                                                  *)

Req(bank, country, bin, limit) == [bank |-> bank, country |-> country, bin |-> bin, limit |-> limit]

Limits == {{}} \cup {{n} : n \in -1..MaxLimit}

Requests ==
    {Req({<<"b">>}, {}, {}, l) : l \in Limits}
    \cup {Req({}, {<<"u", "s">>}, {}, l) : l \in {{}, {0}, {1}}}
    \cup {Req({b}, {}, {}, {}) : b \in {<<"A", "B">>, <<"z">>}}
    \cup {Req({}, {c}, {}, {}) : c \in {<<"D", "e">>, <<"f", "r">>, <<"n", "o">>}}
    \cup {Req({}, {}, {b}, {}) : b \in {"411111", "999999"}}
    \cup {Req({}, {}, {}, {}), Req({<<"b">>}, {<<"u", "s">>}, {}, {})}

Val(opt) == CHOOSE x \in opt : TRUE

\* if x: for an Optional[str]; Truthy for a sequence of characters,
\* TruthyBin for a BIN
Truthy(opt) == opt # {} /\ Len(Val(opt)) > 0
TruthyBin(opt) == opt # {} /\ Val(opt) # ""

\* a validation that lets zero through (ge=0)
ValidLimitOrZero(limit) == IF limit = {} THEN TRUE ELSE Val(limit) >= 0

\* limit: Optional[int] = Query(None, gt=0); a request that fails the
\* validation is answered 422 and the handler is not called
ValidLimit(limit) == IF limit = {} THEN TRUE ELSE Val(limit) > 0

Success(data, by) ==
    [status |-> "SUCCESS", code |-> 200, data |-> data, count |-> Len(data),
     filtered_by |-> by, message |-> ""]

Error(code, message) ==
    [status |-> "error", code |-> code, data |-> <<>>, count |-> 0,
     filtered_by |-> "", message |-> message]

\* an exception that leaves the handler
Fault == [status |-> "fault", code |-> 500, data |-> <<>>, count |-> 0,
          filtered_by |-> "", message |-> ""]

Invalid == [status |-> "invalid", code |-> 422, data |-> <<>>, count |-> 0,
            filtered_by |-> "", message |-> ""]

\* the kinds of outcome of section 7
Outcome(r) ==
    CASE r.status = "SUCCESS" -> "Success"
      [] r.status = "error" /\ r.code = 404 -> "NotFound"
      [] r.status = "error" /\ r.code = 500 -> "Unavailable"
      [] r.status = "error" /\ r.code = 400 -> "BadRequest"
      [] r.status = "invalid" -> "Invalid"
      [] OTHER -> "Fault"

Min(a, b) == IF a < b THEN a ELSE b
Max(a, b) == IF a > b THEN a ELSE b

\* seq[:n]
Slice(seq, n) ==
    IF n >= 0 THEN SubSeq(seq, 1, Min(n, Len(seq)))
    ELSE SubSeq(seq, 1, Max(Len(seq) + n, 0))

\* a truncation that is one short
ApplyLimitOneShort(seq, limit) == IF limit # {} THEN Slice(seq, Val(limit) - 1) ELSE seq

\* if limit is not None: x = x[:limit]
ApplyLimit(seq, limit) == IF limit # {} THEN Slice(seq, Val(limit)) ELSE seq

-----------------------------------------------------------------------------
(* get_bins, after the reload check                                        *)

\* for entry in data: if 'issuer' in entry and bank.lower() in
\* entry['issuer'].lower(): matching_bins.append(format_entry(entry))
RECURSIVE MatchEntries(_, _, _)
MatchEntries(entries, bank, acc) ==
    IF entries = <<>> THEN [ok |-> TRUE, out |-> acc]
    ELSE LET e == Head(entries) IN
         CASE e.t = "obj" ->
                IF ~HasKey(e, "issuer") THEN MatchEntries(Tail(entries), bank, acc)
                ELSE IF e.f.issuer.t # "str" THEN [ok |-> FALSE, out |-> acc]
                ELSE IF Contains(Lower(e.f.issuer.s), Lower(bank))
                     THEN MatchEntries(Tail(entries), bank, Append(acc, format_entry(e)))
                     ELSE MatchEntries(Tail(entries), bank, acc)
           [] e.t = "str" ->
                IF Contains(e.s, IssuerStr) THEN [ok |-> FALSE, out |-> acc]
                ELSE MatchEntries(Tail(entries), bank, acc)
           [] OTHER -> [ok |-> FALSE, out |-> acc]

\* for data in COUNTRY_DATA.values(): ...
RECURSIVE MatchCountries(_, _, _)
MatchCountries(cd, bank, acc) ==
    IF cd = <<>> THEN [ok |-> TRUE, out |-> acc]
    ELSE LET data == Head(cd).v IN
         IF data.t # "arr" THEN [ok |-> FALSE, out |-> acc]
         ELSE LET m == MatchEntries(data.a, bank, acc) IN
              IF ~m.ok THEN m ELSE MatchCountries(Tail(cd), bank, m.out)

\* a bank query that answers an empty success when nothing matches
ByBankEmptySuccess(bank, limit, cd) ==
    IF cd = <<>> THEN Error(500, "Data directory not found or empty")
    ELSE LET m == MatchCountries(cd, bank, <<>>) IN
         IF ~m.ok THEN Fault
         ELSE Success(ApplyLimit(m.out, limit), "bank")

ByBank(bank, limit, cd) ==
    IF cd = <<>> THEN Error(500, "Data directory not found or empty")
    ELSE LET m == MatchCountries(cd, bank, <<>>) IN
         IF ~m.ok THEN Fault
         ELSE IF m.out = <<>> THEN Error(404, "No matches found for bank")
         ELSE Success(ApplyLimit(m.out, limit), "bank")

ByCountry(country, limit, cd) ==
    LET c == Upper(country) IN
    IF c \notin Keys(cd) THEN Error(404, "No data found for country code")
    ELSE LET data == DictGet(cd, c) IN
         IF data.t # "arr" \/ \E i \in 1..Len(data.a) : data.a[i].t # "obj"
         THEN Fault
         ELSE Success(ApplyLimit([i \in 1..Len(data.a) |-> format_entry(data.a[i])], limit),
                      "country")

ByBin(bin, bi) ==
    IF DOMAIN bi = {} THEN Error(500, "Data directory not found or empty")
    ELSE IF bin \in DOMAIN bi THEN Success(<<format_entry(bi[bin])>>, "bin")
    ELSE Error(404, "No matches found for BIN")

\* if bank: ... elif country: ... elif bin: ... else: ...
Evaluate(q, cd, bi) ==
    IF Truthy(q.bank) THEN ByBank(Val(q.bank), q.limit, cd)
    ELSE IF Truthy(q.country) THEN ByCountry(Val(q.country), q.limit, cd)
    ELSE IF TruthyBin(q.bin) THEN ByBin(Val(q.bin), bi)
    ELSE Error(400, "Please provide either 'bank', 'country', or 'bin' query parameter")

\* get_bins as the caller sees it: the validation of limit, then the handler
Respond(q, cd, bi) == IF ~ValidLimit(q.limit) THEN Invalid ELSE Evaluate(q, cd, bi)

\* get_bin_info, after the reload
BinInfo(bin, bi) ==
    IF DOMAIN bi = {} THEN Error(500, "Data directory not found or empty")
    ELSE IF bin \in DOMAIN bi THEN Success(<<format_entry(bi[bin])>>, "bin")
    ELSE Error(404, "No matches found for BIN")

NoResp == [ep |-> "none", req |-> Req({}, {}, {}, {}), r |-> Invalid]

BinRequests == {Req({}, {}, b, {}) : b \in {{}, {"411111"}, {"999999"}}}

-----------------------------------------------------------------------------
(* The state machine                                                       *)

Init ==
    /\ dir \in Directories
    /\ COUNTRY_DATA = <<>>
    /\ BIN_INDEX = EmptyIndex
    /\ loads = [L \in Loads |-> IdleLoad]
    /\ started = FALSE
    /\ resp = NoResp

\* startup_event: await load_data()
Startup ==
    /\ ~started
    /\ started' = TRUE
    /\ loads' = [loads EXCEPT ![1] = BeginLoad(dir, "startup")]
    /\ UNCHANGED <<COUNTRY_DATA, BIN_INDEX, dir, resp>>

\* requests are served once the startup event has returned
Serving == started /\ loads[1].st = "done"

\* load_file: one pass of the retry loop, entered when the task first runs
\* or when its sleep ends.  It ends in return True or in asyncio.sleep.
Attempt(L, n) ==
    /\ UNCHANGED <<dir, started, resp>>
    /\ loads[L].st = "running"
    /\ n \in DOMAIN loads[L].tasks
    /\ LET task == loads[L].tasks[n] IN
       /\ task.pc \in {"start", "sleep"}
       /\ task.attempt < MaxAttempts
       /\ \E ioerr \in (IF dir.files[n].flaky THEN BOOLEAN ELSE {FALSE}),
             country_code \in {CountryCode(n)} :
            \E r \in {AttemptBody(COUNTRY_DATA, BIN_INDEX, country_code, dir.files[n], ioerr)} :
            /\ COUNTRY_DATA' = r.cd
            /\ BIN_INDEX' = r.bi
            /\ loads' = [loads EXCEPT ![L].tasks[n] =
                            [pc |-> IF r.ok THEN "true" ELSE "sleep",
                             attempt |-> task.attempt + 1]]

\* load_file: the sleep after the last attempt ends; return False
GiveUp(L, n) ==
    /\ UNCHANGED <<COUNTRY_DATA, BIN_INDEX, dir, started, resp>>
    /\ loads[L].st = "running"
    /\ n \in DOMAIN loads[L].tasks
    /\ loads[L].tasks[n].pc = "sleep"
    /\ loads[L].tasks[n].attempt >= MaxAttempts
    /\ loads' = [loads EXCEPT ![L].tasks[n].pc = "false"]

\* load_data: gather has every result; count the failures and return to the
\* caller, which goes on without suspending.  The handler's arguments are
\* not read before the await, so the request is drawn here.
LoadReturn(L) ==
    /\ UNCHANGED <<COUNTRY_DATA, BIN_INDEX, dir, started>>
    /\ loads[L].st = "running"
    /\ \A n \in DOMAIN loads[L].tasks : Returned(loads[L].tasks[n])
    /\ loads' = [loads EXCEPT ![L].st = "done", ![L].failed = Failed(loads[L].tasks)]
    /\ CASE loads[L].by = "get_bins" ->
              \E q \in Requests :
                 /\ ValidLimit(q.limit)
                 /\ resp' = [ep |-> "get_bins", req |-> q,
                             r |-> Evaluate(q, COUNTRY_DATA, BIN_INDEX)]
         [] loads[L].by = "get_bin_info" ->
              \E q \in BinRequests :
                 /\ TruthyBin(q.bin)
                 /\ resp' = [ep |-> "get_bin_info", req |-> q,
                             r |-> BinInfo(Val(q.bin), BIN_INDEX)]
         [] OTHER -> UNCHANGED resp

\* GET /api/bin
get_bins(q) ==
    /\ Serving
    /\ IF ValidLimit(q.limit) /\ COUNTRY_DATA = <<>> /\ DOMAIN BIN_INDEX = {}
       THEN /\ HasFreeLoad
            /\ LET ld == BeginLoad(dir, "get_bins") IN
               /\ loads' = [loads EXCEPT ![FreeLoad] = ld]
               /\ IF ld.st = "done"
                  THEN resp' = [ep |-> "get_bins", req |-> q,
                                r |-> Evaluate(q, COUNTRY_DATA, BIN_INDEX)]
                  ELSE UNCHANGED resp
       ELSE /\ resp' = [ep |-> "get_bins", req |-> q,
                        r |-> Respond(q, COUNTRY_DATA, BIN_INDEX)]
            /\ UNCHANGED loads
    /\ UNCHANGED <<COUNTRY_DATA, BIN_INDEX, dir, started>>

\* GET /api/binfo
get_bin_info(q) ==
    /\ Serving
    /\ IF ~TruthyBin(q.bin)
       THEN /\ resp' = [ep |-> "get_bin_info", req |-> q,
                        r |-> Error(400, "Please provide 'bin' query parameter")]
            /\ UNCHANGED loads
       ELSE IF DOMAIN BIN_INDEX = {}
       THEN /\ HasFreeLoad
            /\ LET ld == BeginLoad(dir, "get_bin_info") IN
               /\ loads' = [loads EXCEPT ![FreeLoad] = ld]
               /\ IF ld.st = "done"
                  THEN resp' = [ep |-> "get_bin_info", req |-> q,
                                r |-> BinInfo(Val(q.bin), BIN_INDEX)]
                  ELSE UNCHANGED resp
       ELSE /\ resp' = [ep |-> "get_bin_info", req |-> q,
                        r |-> BinInfo(Val(q.bin), BIN_INDEX)]
            /\ UNCHANGED loads
    /\ UNCHANGED <<COUNTRY_DATA, BIN_INDEX, dir, started>>

Files == UNION {DOMAIN d.files : d \in Directories}

Next ==
    \/ Startup
    \/ \E L \in Loads, n \in Files : Attempt(L, n)
    \/ \E L \in Loads, n \in Files : GiveUp(L, n)
    \/ \E L \in Loads : LoadReturn(L)
    \/ \E q \in Requests : get_bins(q)
    \/ \E q \in BinRequests : get_bin_info(q)

Spec == Init /\ [][Next]_vars

\* a step of a run of load_data or of one of its tasks
LoaderStep ==
    \/ \E L \in Loads, n \in Files : Attempt(L, n) \/ GiveUp(L, n)
    \/ \E L \in Loads : LoadReturn(L)

\* The event loop runs a task that is ready, and a sleep ends: the loader
\* does not stop while one of its steps can be taken.
FairSpec == Spec /\ WF_vars(LoaderStep)

-----------------------------------------------------------------------------
(* Vocabulary of the properties                                            *)

\* the dataset files of the directory
Datasets == {n \in DOMAIN dir.files : IsDataset(n)}

\* the entries json.load gives for a file (none when it is no JSON array)
Entries(n) ==
    LET p == dir.files[n].parse IN
    IF p # {} /\ Val(p).t = "arr" THEN Val(p).a ELSE <<>>

\* the records of a file
Records(n) == {Entries(n)[i] : i \in {j \in 1..Len(Entries(n)) : Entries(n)[j].t = "obj"}}

\* the records of a file that carry a BIN
BinRecords(n) == {e \in Records(n) : HasKey(e, "bin")}

\* some attempt of the file returned True
Succeeded(n) == \E L \in Loads : n \in DOMAIN loads[L].tasks /\ loads[L].tasks[n].pc = "true"

\* the file used up its attempts in load L
FailedIn(L, n) == n \in DOMAIN loads[L].tasks /\ loads[L].tasks[n].pc = "false"

\* no run of load_data is in progress, and one has finished
Loaded == (\A L \in Loads : loads[L].st # "running") /\ (\E L \in Loads : loads[L].st = "done")

\* no other dataset file has the country code of n
OwnCode(n) == \A m \in Datasets : CountryCode(m) = CountryCode(n) => m = n

-----------------------------------------------------------------------------
(* C1: a file whose three attempts all failed (whatever the reason) has    *)
(* left no key and no record in byCountry or byBin once load() is over.    *)
(* The code does not keep this: an attempt that raises after json.load has *)
(* already stored the file under its country code, and the BINs of the     *)
(* entries before the one that raised.                                     *)
C1_FailedFileLeavesNothing ==
    \A L \in Loads : loads[L].st = "done" =>
        \A n \in Datasets :
            (FailedIn(L, n) /\ ~Succeeded(n) /\ OwnCode(n)) =>
                /\ CountryCode(n) \notin Keys(COUNTRY_DATA)
                /\ \A b \in DOMAIN BIN_INDEX : BIN_INDEX[b] \notin Records(n)

-----------------------------------------------------------------------------
(* C2, as claimed: when load() has returned, every file with a successful  *)
(* attempt has all its records in byCountry and its BIN-bearing records in *)
(* byBin, and the failure count is the number of files whose attempts all  *)
(* failed.                                                                 *)
C2_EveryLoadedRecordIndexed ==
    \A L \in Loads : loads[L].st = "done" =>
        /\ \A n \in DOMAIN loads[L].tasks : loads[L].tasks[n].pc = "true" =>
              /\ CountryCode(n) \in Keys(COUNTRY_DATA)
              /\ DictGet(COUNTRY_DATA, CountryCode(n)) = Val(dir.files[n].parse)
              /\ \A e \in BinRecords(n) :
                    e.f.bin \in DOMAIN BIN_INDEX /\ BIN_INDEX[e.f.bin] = e
        /\ loads[L].failed = Cardinality({n \in Datasets : FailedIn(L, n)})

\* the BIN of e is carried by no other record of the dataset files
UniqueBin(n, e) ==
    /\ \A m \in Datasets \ {n} : \A x \in BinRecords(m) : x.f.bin # e.f.bin
    /\ Cardinality({i \in 1..Len(Entries(n)) :
                       /\ Entries(n)[i].t = "obj"
                       /\ HasKey(Entries(n)[i], "bin")
                       /\ Entries(n)[i].f.bin = e.f.bin}) = 1

(* C2, amended: when load() has returned, every task has returned; every   *)
(* file with a successful attempt has its country code as a key of         *)
(* byCountry and the BIN of each of its BIN-bearing records as a key of     *)
(* byBin; the value under the country code is the file's own records when  *)
(* no other file has that country code, and the value under a BIN is the   *)
(* file's own record when no other record of the dataset carries that BIN; *)
(* and the failure count is the number of files whose attempts all failed. *)
C2_LoadedFilesIndexed ==
    \A L \in Loads : loads[L].st = "done" =>
        /\ \A n \in DOMAIN loads[L].tasks : Returned(loads[L].tasks[n])
        /\ DOMAIN loads[L].tasks = (IF dir.exists THEN Datasets ELSE {})
        /\ \A n \in DOMAIN loads[L].tasks : loads[L].tasks[n].pc = "true" =>
              /\ CountryCode(n) \in Keys(COUNTRY_DATA)
              /\ OwnCode(n) =>
                    DictGet(COUNTRY_DATA, CountryCode(n)) = Val(dir.files[n].parse)
              /\ \A e \in BinRecords(n) :
                    /\ e.f.bin \in DOMAIN BIN_INDEX
                    /\ UniqueBin(n, e) => BIN_INDEX[e.f.bin] = e
        /\ loads[L].failed = Cardinality({n \in Datasets : FailedIn(L, n)})

\* a load has returned with a file that failed and a file that succeeded
C2_Witness ==
    \E L \in Loads :
        /\ loads[L].st = "done"
        /\ loads[L].failed >= 1
        /\ \E n \in DOMAIN loads[L].tasks :
              /\ loads[L].tasks[n].pc = "true"
              /\ BinRecords(n) # {}
              /\ DictGet(COUNTRY_DATA, CountryCode(n)) = Val(dir.files[n].parse)

-----------------------------------------------------------------------------
(* C3: whenever another task or a query can run, each file has either none *)
(* of its records or all of them in the two indexes: no file is seen with  *)
(* its byCountry entry written and its byBin entries written in part.      *)
(* Every state of the model is such a point.  The code does not keep this: *)
(* a failed attempt sleeps with its partial insertion in place.            *)
C3_FileInsertedWhole ==
    \A n \in Datasets :
        (/\ dir.files[n].parse # {}
         /\ CountryCode(n) \in Keys(COUNTRY_DATA)
         /\ DictGet(COUNTRY_DATA, CountryCode(n)) = Val(dir.files[n].parse))
        => \A e \in BinRecords(n) : e.f.bin \in DOMAIN BIN_INDEX

-----------------------------------------------------------------------------
(* C4: load() terminates.  No file is attempted more than 3 times, a task  *)
(* that returned True is never run again, and the loads that are running   *)
(* all return, whatever the attempts do.  Checked under FairSpec.          *)
C4_LoadTerminates ==
    /\ [](\A L \in Loads : \A n \in DOMAIN loads[L].tasks : loads[L].tasks[n].attempt <= 3)
    /\ [][\A L \in Loads : \A n \in DOMAIN loads[L].tasks :
             loads[L].tasks[n].pc = "true" => loads'[L].tasks[n] = loads[L].tasks[n]]_vars
    /\ (\E L \in Loads : loads[L].st = "running")
          ~> (\A L \in Loads : loads[L].st # "running")

\* a load has returned in which one file used its 3 attempts and another
\* succeeded on a retry
C4_Witness ==
    \E L \in Loads :
        /\ loads[L].st = "done"
        /\ \E n \in DOMAIN loads[L].tasks :
              loads[L].tasks[n].pc = "false" /\ loads[L].tasks[n].attempt = 3
        /\ \E n \in DOMAIN loads[L].tasks :
              loads[L].tasks[n].pc = "true" /\ loads[L].tasks[n].attempt >= 2

-----------------------------------------------------------------------------
\* the response to a byCountry query that returns the records of file n
FileResult(n) ==
    Success([i \in 1..Len(Entries(n)) |-> format_entry(Entries(n)[i])], "country")

(* C5: once load() is over, for every key C of byCountry the byCountry      *)
(* query for C without limit returns the enriched records of a loaded file  *)
(* with country code C, all of them and in the file's order.  The code     *)
(* does not keep this: a file that failed (C1) leaves its key behind, and   *)
(* the query for it ends in an uncaught exception.                         *)
C5_CountryQueryReturnsFile ==
    Loaded =>
        \A C \in Keys(COUNTRY_DATA) :
            \E n \in Datasets :
                /\ CountryCode(n) = C
                /\ Succeeded(n)
                /\ \A i \in 1..Len(Entries(n)) : Entries(n)[i].t = "obj"
                /\ Respond(Req({}, {C}, {}, {}), COUNTRY_DATA, BIN_INDEX) = FileResult(n)

-----------------------------------------------------------------------------
(* C6: once load() is over, the BIN of every successfully loaded record is *)
(* a key of byBin, and byBin holds under it a successfully loaded record    *)
(* with that BIN (the record itself when it is the only one).  The code    *)
(* does not keep this: a file that failed (C1) leaves its records in byBin, *)
(* over those of the files that loaded.                                    *)
C6_ByBinHoldsLoadedRecord ==
    Loaded =>
        \A n \in Datasets : Succeeded(n) =>
            \A e \in BinRecords(n) :
                /\ e.f.bin \in DOMAIN BIN_INDEX
                /\ \E m \in Datasets : Succeeded(m) /\ BIN_INDEX[e.f.bin] \in BinRecords(m)

-----------------------------------------------------------------------------
BankParams == {<<"b">>, <<"A", "B">>, <<"z">>, <<"s", "U">>}
CountryParams == {<<"u", "s">>, <<"D", "e">>, <<"f", "r">>, <<"n", "o">>}
BinParams == {"411111", "522222", "633333", "999999"}

\* byBank and byCountry requests without limit
ListRequests ==
    {Req({b}, {}, {}, {}) : b \in BankParams} \cup {Req({}, {c}, {}, {}) : c \in CountryParams}

(* C7: a byBank or byCountry query with limit N > 0 returns the first      *)
(* min(N, total) elements of what the query returns without limit; the     *)
(* limit changes neither the kind of outcome nor the matches.              *)
C7_LimitIsPrefix ==
    \A q \in ListRequests : \A N \in 1..(MaxLimit + 1) :
        LET full == Respond(q, COUNTRY_DATA, BIN_INDEX)
            lim == Respond([q EXCEPT !.limit = {N}], COUNTRY_DATA, BIN_INDEX)
        IN IF full.status = "SUCCESS"
           THEN /\ lim.status = "SUCCESS"
                /\ lim.filtered_by = full.filtered_by
                /\ lim.data = SubSeq(full.data, 1, Min(N, Len(full.data)))
                /\ lim.count = Len(lim.data)
                /\ lim.count <= N
           ELSE lim = full

\* a query with limit 1 was answered with one record of several
C7_Witness ==
    /\ resp.ep = "get_bins"
    /\ resp.req.limit = {1}
    /\ resp.r.status = "SUCCESS"
    /\ resp.r.count = 1
    /\ LET full == Respond([resp.req EXCEPT !.limit = {}], COUNTRY_DATA, BIN_INDEX)
       IN full.status = "SUCCESS" /\ full.count >= 2 /\ resp.r.data = <<full.data[1]>>

-----------------------------------------------------------------------------
-----------------------------------------------------------------------------
\* both indexes hold something
Populated == COUNTRY_DATA # <<>> /\ DOMAIN BIN_INDEX # {}

\* the scan of byBank ends and finds no issuer that contains the parameter
NoIssuerMatches(bank) ==
    LET m == MatchCountries(COUNTRY_DATA, bank, <<>>) IN m.ok /\ m.out = <<>>

(* C9, as claimed: on a populated dataset a byBin query for an unknown BIN *)
(* returns NotFound, and a byBank query that matches no issuer returns an  *)
(* empty success, an outcome of another kind.                              *)
C9_NoMatchIsEmptySuccess ==
    (Loaded /\ Populated) =>
        /\ \A b \in BinParams \ DOMAIN BIN_INDEX :
              Outcome(Respond(Req({}, {}, {b}, {}), COUNTRY_DATA, BIN_INDEX)) = "NotFound"
        /\ \A p \in BankParams : NoIssuerMatches(p) =>
              LET r == Respond(Req({p}, {}, {}, {}), COUNTRY_DATA, BIN_INDEX)
              IN Outcome(r) = "Success" /\ r.count = 0

(* C9, amended: on a populated dataset a byBin query for an unknown BIN    *)
(* returns NotFound, and a byBank query whose scan completes without a     *)
(* match returns NotFound too (with its own message): it is never an       *)
(* empty success, and a byBank success holds at least one record.          *)
C9_NoMatchIsNotFound ==
    Populated =>
        /\ \A b \in BinParams \ DOMAIN BIN_INDEX :
              Outcome(Respond(Req({}, {}, {b}, {}), COUNTRY_DATA, BIN_INDEX)) = "NotFound"
        /\ \A p \in BankParams :
              LET r == Respond(Req({p}, {}, {}, {}), COUNTRY_DATA, BIN_INDEX) IN
              /\ NoIssuerMatches(p) =>
                    /\ Outcome(r) = "NotFound"
                    /\ r.message = "No matches found for bank"
              /\ Outcome(r) = "Success" => r.count >= 1

\* on a populated dataset a byBank query that matches nothing was answered
\* NotFound, and so is a byBin query for an unknown BIN
C9_Witness ==
    /\ Populated
    /\ resp.ep = "get_bins"
    /\ resp.req = Req({<<"z">>}, {}, {}, {})
    /\ NoIssuerMatches(<<"z">>)
    /\ Outcome(resp.r) = "NotFound"
    /\ Outcome(Respond(Req({}, {}, {"999999"}, {}), COUNTRY_DATA, BIN_INDEX)) = "NotFound"

-----------------------------------------------------------------------------
\* q names one mode and passes the validation
OneMode(q) ==
    /\ ValidLimit(q.limit)
    /\ Cardinality({m \in {"bank", "country", "bin"} :
                       \/ m = "bank" /\ Truthy(q.bank)
                       \/ m = "country" /\ Truthy(q.country)
                       \/ m = "bin" /\ TruthyBin(q.bin)}) = 1

(* C10: when both indexes are still empty after the lazy reload, a query   *)
(* in any of the three modes is answered Unavailable, never NotFound.  The *)
(* code does not keep this: the byCountry branch has no check for an empty *)
(* dataset and answers NotFound.                                           *)
C10_EmptyDatasetUnavailable ==
    (/\ resp.ep = "get_bins"
     /\ OneMode(resp.req)
     /\ COUNTRY_DATA = <<>>
     /\ DOMAIN BIN_INDEX = {})
    => Outcome(resp.r) = "Unavailable"

-----------------------------------------------------------------------------
\* the byBin requests of get_bins
BinQueries == {Req({}, {}, {b}, {}) : b \in BinParams}

(* C11: a query is answered Unavailable only in states where byCountry and *)
(* byBin are both empty; a byBin query for an unknown BIN, asked while      *)
(* byCountry holds a key and byBin is empty, is answered NotFound.  The    *)
(* code does not keep this: the bin branch tests BIN_INDEX alone and       *)
(* answers Unavailable while byCountry holds the loaded files.             *)
C11_UnavailableOnlyWhenEmpty ==
    Loaded =>
        /\ \A q \in Requests \cup BinQueries :
              Outcome(Respond(q, COUNTRY_DATA, BIN_INDEX)) = "Unavailable"
                 => (COUNTRY_DATA = <<>> /\ DOMAIN BIN_INDEX = {})
        /\ (COUNTRY_DATA # <<>> /\ DOMAIN BIN_INDEX = {}) =>
              \A b \in BinParams :
                 /\ Outcome(Respond(Req({}, {}, {b}, {}), COUNTRY_DATA, BIN_INDEX)) = "NotFound"
                 /\ Outcome(BinInfo(b, BIN_INDEX)) = "NotFound"

-----------------------------------------------------------------------------
\* how many of bank, country, bin the request carries
Supplied(q) ==
    Cardinality({m \in {"bank", "country", "bin"} :
                    \/ m = "bank" /\ q.bank # {}
                    \/ m = "country" /\ q.country # {}
                    \/ m = "bin" /\ q.bin # {}})

(* C12: a lookup request is evaluated only when it carries exactly one of  *)
(* bank, country, bin; a request with none of them, and a request with two *)
(* or three, are answered BadRequest.  The code does not keep this: the    *)
(* if / elif chain evaluates the first parameter that is present and       *)
(* ignores the others.                                                     *)
C12_OneParameterOrBadRequest ==
    (/\ resp.ep = "get_bins"
     /\ ValidLimit(resp.req.limit)
     /\ Supplied(resp.req) # 1
     /\ Populated)
    => Outcome(resp.r) = "BadRequest"

-----------------------------------------------------------------------------
\* this step is a query calling load_data(): a run of load_data that was
\* unused is now a reload
ReloadStarts ==
    \E L \in Loads :
        /\ loads[L].st = "idle"
        /\ loads'[L].by \in {"get_bins", "get_bin_info"}

(* C13: once the startup load is over, a query calls load() only in a      *)
(* state where byCountry and byBin are both empty; with one of them        *)
(* non-empty no query starts a reload, so no query changes the indexes.    *)
(* The code does not keep this: get_bin_info tests BIN_INDEX alone and     *)
(* reloads while byCountry holds the loaded files.                         *)
C13_ReloadOnlyWhenBothEmpty ==
    [][ReloadStarts => (COUNTRY_DATA = <<>> /\ DOMAIN BIN_INDEX = {})]_vars

-----------------------------------------------------------------------------
\* the structured results of section 7
Structured == {"Success", "NotFound", "Unavailable", "BadRequest"}

(* C14: whatever load() left in the indexes, the files that failed         *)
(* included, a query of either endpoint that passes the validation ends in *)
(* a structured result (success, NotFound, Unavailable or BadRequest) and  *)
(* never in an exception that leaves the handler.  The code does not keep  *)
(* this: the handlers have no try, and a value that a failed file left in  *)
(* byCountry (C1) makes the scan of byBank or byCountry raise.             *)
C14_QueryNeverFaults ==
    (resp.ep # "none" /\ ValidLimit(resp.req.limit)) => Outcome(resp.r) \in Structured

-----------------------------------------------------------------------------
(* C15: when the data directory does not exist, load() starts no file      *)
(* task, fails nothing and returns at once, at startup and at every lazy   *)
(* reload, and byCountry and byBin stay as they were: empty.               *)
C15_MissingDirectoryIsNoOp ==
    ~dir.exists =>
        /\ COUNTRY_DATA = <<>>
        /\ BIN_INDEX = EmptyIndex
        /\ \A L \in Loads :
              /\ loads[L].st \in {"idle", "done"}
              /\ loads[L].tasks = NoTasks
              /\ loads[L].failed = 0
        /\ \A by \in {"startup", "get_bins", "get_bin_info"} :
              BeginLoad(dir, by) = [st |-> "done", by |-> by, tasks |-> NoTasks, failed |-> 0]

\* without a directory the startup load and a lazy reload have both
\* returned, and the query that reloaded was answered
C15_Witness ==
    /\ ~dir.exists
    /\ \A L \in Loads : loads[L].st = "done"
    /\ \E L \in Loads : loads[L].by \in {"get_bins", "get_bin_info"}
    /\ resp.ep # "none"
    /\ COUNTRY_DATA = <<>>
    /\ BIN_INDEX = EmptyIndex

-----------------------------------------------------------------------------
\* the startup load is over and left a key in byCountry: a file loaded, or
\* a readable file failed after line 24
StartupLeftCountry ==
    /\ loads[1].st = "done"
    /\ \E n \in DOMAIN loads[1].tasks :
          \/ loads[1].tasks[n].pc = "true"
          \/ dir.files[n].parse # {} /\ ~dir.files[n].flaky

\* this step is the return of a reload that get_bin_info called
BinInfoReloadReturns ==
    \E L \in Loads :
        /\ loads[L].by = "get_bin_info"
        /\ loads[L].st = "running"
        /\ loads'[L].st = "done"

(* C16: from every index state and for every BIN, binInfo gives the        *)
(* outcome and makes the index changes of the lookup in byBin mode without *)
(* limit.  On the same indexes the two answers are equal; and a binInfo    *)
(* request made while byCountry holds a key and byBin is empty is answered *)
(* as the lookup is: Unavailable, with byBin left empty.  The code does    *)
(* not keep the second part: get_bin_info reloads when BIN_INDEX alone is  *)
(* empty, get_bins only when both indexes are, so binInfo answers from     *)
(* indexes that its reload has filled.                                     *)
C16_BinInfoSameAsByBin ==
    /\ [](\A b \in BinParams :
             BinInfo(b, BIN_INDEX) = Respond(Req({}, {}, {b}, {}), COUNTRY_DATA, BIN_INDEX))
    /\ [][(BinInfoReloadReturns /\ StartupLeftCountry) =>
             /\ Outcome(resp'.r) = "Unavailable"
             /\ DOMAIN BIN_INDEX' = {}]_vars

-----------------------------------------------------------------------------
\* the name of a dataset file without its extension
BaseName(n) == SubSeq(n, 1, Len(n) - Len(DotJson))

(* C17: every file whose name ends in the dataset extension, compared      *)
(* without regard to case, is stored in byCountry under the upper-cased    *)
(* base name of the file, the extension removed.  The code does not keep   *)
(* this: it removes the extension with a case-sensitive replace, so a file *)
(* with an upper-case extension is stored under its whole name.            *)
C17_KeyIsUpperBaseName ==
    \A n \in Datasets :
        Succeeded(n) =>
            /\ CountryCode(n) = Upper(BaseName(n))
            /\ Upper(BaseName(n)) \in Keys(COUNTRY_DATA)

-----------------------------------------------------------------------------
\* entry i of file n is a record without a bin field
NoBinAt(n, i) == Entries(n)[i].t = "obj" /\ ~HasKey(Entries(n)[i], "bin")

(* C18: a file that loaded with zero entries has its country code as a key *)
(* of byCountry, mapped to the empty sequence, and the byCountry query for *)
(* it is a success with count 0; a record without a bin field in a file    *)
(* that loaded is in the file's byCountry sequence, is no value of byBin,  *)
(* and the records after it in the file are indexed in byBin.  (The file   *)
(* is the only one with its country code.)                                 *)
C18_EmptyFileAndNoBinRecord ==
    \A n \in Datasets :
        (Succeeded(n) /\ OwnCode(n)) =>
            /\ CountryCode(n) \in Keys(COUNTRY_DATA)
            /\ Entries(n) = <<>> =>
                  LET r == Respond(Req({}, {CountryCode(n)}, {}, {}), COUNTRY_DATA, BIN_INDEX)
                  IN /\ DictGet(COUNTRY_DATA, CountryCode(n)) = JArr(<<>>)
                     /\ Outcome(r) = "Success"
                     /\ r.count = 0
                     /\ r.data = <<>>
            /\ \A i \in 1..Len(Entries(n)) : NoBinAt(n, i) =>
                  /\ DictGet(COUNTRY_DATA, CountryCode(n)).a[i] = Entries(n)[i]
                  /\ \A b \in DOMAIN BIN_INDEX : BIN_INDEX[b] # Entries(n)[i]
                  /\ \A j \in (i + 1)..Len(Entries(n)) :
                        ~NoBinAt(n, j) => Entries(n)[j].f.bin \in DOMAIN BIN_INDEX

\* the byCountry query for a loaded empty file was answered with a success
\* of count 0, and a loaded file holds a record without bin before a record
\* with a bin
C18_Witness ==
    /\ resp.ep = "get_bins"
    /\ resp.req = Req({}, {<<"f", "r">>}, {}, {})
    /\ Outcome(resp.r) = "Success"
    /\ resp.r.count = 0
    /\ Succeeded(fr_json)
    /\ \E n \in Datasets :
          /\ Succeeded(n)
          /\ \E i \in 1..Len(Entries(n)) : \E j \in (i + 1)..Len(Entries(n)) :
                /\ NoBinAt(n, i)
                /\ ~NoBinAt(n, j)
                /\ BIN_INDEX[Entries(n)[j].f.bin] = Entries(n)[j]

-----------------------------------------------------------------------------
\* the records byCountry holds, by insertion order of the country keys and
\* then by position in each country's sequence
RECURSIVE StoredRecords(_)
StoredRecords(cd) ==
    IF cd = <<>> THEN <<>>
    ELSE (IF Head(cd).v.t = "arr"
          THEN SelectSeq(Head(cd).v.a, LAMBDA e : e.t = "obj")
          ELSE <<>>)
         \o StoredRecords(Tail(cd))

\* the record has an issuer that contains p, letter case set aside
IssuerContains(e, p) ==
    /\ HasKey(e, "issuer")
    /\ e.f.issuer.t = "str"
    /\ Contains(Lower(e.f.issuer.s), Lower(p))

\* the enriched records whose issuer contains p, in index order
BankMatches(cd, p) ==
    LET m == SelectSeq(StoredRecords(cd), LAMBDA e : IssuerContains(e, p))
    IN [i \in 1..Len(m) |-> format_entry(m[i])]

\* this step answers a byBank query without limit
BankAnswered ==
    /\ resp' # resp
    /\ resp'.ep = "get_bins"
    /\ Truthy(resp'.req.bank)
    /\ resp'.req.limit = {}

(* C19: a byBank query with a non-empty parameter p and no limit returns   *)
(* exactly the enriched records, over all countries of byCountry, whose    *)
(* issuer contains p as a substring when letter case is set aside, in the   *)
(* insertion order of the countries and then in the order of each          *)
(* country's sequence; a record without issuer is never returned.  The     *)
(* code does not keep this in the states a failed file leaves behind (C1): *)
(* the scan raises on the entry that is no record and the records that     *)
(* match are not returned.                                                 *)
C19_BankReturnsAllMatches ==
    [][BankAnswered =>
          LET exp == BankMatches(COUNTRY_DATA', Val(resp'.req.bank)) IN
          /\ resp'.r.data = exp
          /\ exp # <<>> => resp'.r = Success(exp, "bank")
          /\ \A i \in 1..Len(resp'.r.data) : Len(resp'.r.data[i].issuer.s) > 0]_vars

-----------------------------------------------------------------------------
\* the record is an element of the sequence of some country key
InByCountry(e) ==
    \E i \in 1..Len(COUNTRY_DATA) :
        /\ COUNTRY_DATA[i].v.t = "arr"
        /\ \E j \in 1..Len(COUNTRY_DATA[i].v.a) : COUNTRY_DATA[i].v.a[j] = e

(* C20: in every reachable state every record that is a value of byBin is  *)
(* an element of the byCountry sequence of some country key, also when two *)
(* files have the same country code or a file fails after a partial        *)
(* insertion.  The code does not keep this: the second of two files with   *)
(* the same country code replaces the first one's sequence in byCountry    *)
(* while the first one's records stay in byBin.                            *)
C20_ByBinWithinByCountry ==
    \A b \in DOMAIN BIN_INDEX : InByCountry(BIN_INDEX[b])

====
